---- MODULE Spec2Model ----
(***************************************************************************)
(* Verification model of the terrain-map-fetcher canvas compositing       *)
(* engine:                                                                 *)
(*   compose_canvas.py  - placement compositor (load, bounds, resolution  *)
(*                        governor, alpha compositing, export)            *)
(*   combine_tiles.py   - grid tiler (grid layout, stitching, seam blend) *)
(*                                                                         *)
(* Numbers: the code computes in IEEE floating point; the model computes  *)
(* the same expressions in exact rational arithmetic (a rational is a     *)
(* pair <<n, d>> in lowest terms, d > 0), so "equal" below means equal up *)
(* to the float rounding of the code.  Mask values are k/255 for a byte k *)
(* exactly as the code derives them from 8-bit mask images.               *)
(***************************************************************************)
EXTENDS Integers, Sequences, FiniteSets, TLC

\* ------------------------------------------------------------------------
\* Exact rational arithmetic
\* ------------------------------------------------------------------------
Abs(a) == IF a < 0 THEN -a ELSE a

Max2(a, b) == IF a >= b THEN a ELSE b

Min2(a, b) == IF a <= b THEN a ELSE b

RECURSIVE Gcd(_, _)
Gcd(a, b) == IF b = 0 THEN a ELSE Gcd(b, a % b)

\* n/d in lowest terms with a positive denominator (d # 0)
Rat(n, d) ==
    LET s == IF d < 0 THEN -1 ELSE 1
        g == Gcd(Abs(n), Abs(d))
    IN  <<(s * n) \div g, (s * d) \div g>>

RInt(k) == <<k, 1>>

RZero == <<0, 1>>

ROne == <<1, 1>>

RAdd(p, q) == Rat(p[1] * q[2] + q[1] * p[2], p[2] * q[2])

RMul(p, q) == Rat(p[1] * q[1], p[2] * q[2])

RDiv(p, q) == Rat(p[1] * q[2], p[2] * q[1])

RLe(p, q) == p[1] * q[2] <= q[1] * p[2]

RLt(p, q) == p[1] * q[2] < q[1] * p[2]

RMin(p, q) == IF RLe(p, q) THEN p ELSE q

RMax(p, q) == IF RLe(p, q) THEN q ELSE p

\* np.clip(v, lo, hi)
RClip(v, lo, hi) == RMin(RMax(v, lo), hi)

\* Python 3 round(): to the nearest integer, a tie goes to the even one
PyRound(r) ==
    LET f   == r[1] \div r[2]
        rem == r[1] - f * r[2]
    IN  IF 2 * rem > r[2] THEN f + 1
        ELSE IF 2 * rem < r[2] THEN f
        ELSE IF f % 2 = 0 THEN f ELSE f + 1

\* mutant of CeilDiv: the quotient is rounded down
CeilDivFloor(a, c) == a \div c

\* math.ceil(a / c) for positive integers
CeilDiv(a, c) == (a + c - 1) \div c

\* ------------------------------------------------------------------------
\* Raster buffers.  A native buffer is a record [w, h, kind, base, gain]
\* (gain multiplies every sample):
\*   kind "flat": every pixel holds base
\*   kind "grad": pixel (x, y) holds base + x + 2*y
\*   kind "edge": pixel (x, y) holds 0 in column 0 and base elsewhere
\* and a resized buffer wraps its source: [w, h, kind |-> "resized", src].
\* ------------------------------------------------------------------------
Buf(w, h, kind, base) ==
    [w |-> w, h |-> h, kind |-> kind, base |-> base, gain |-> 1]

RECURSIVE At(_, _, _)
At(buf, x, y) ==
    CASE buf.kind = "flat" -> buf.gain * buf.base
      [] buf.kind = "grad" -> buf.gain * (buf.base + x + 2 * y)
      [] buf.kind = "edge" -> IF x = 0 THEN 0 ELSE buf.gain * buf.base
      [] buf.kind = "resized" ->
            At(buf.src, (x * buf.src.w) \div buf.w, (y * buf.src.h) \div buf.h)

\* hm_data * scale_z (every sample is multiplied)
Scaled(buf, z) == [buf EXCEPT !.gain = buf.gain * z]

\* PIL resize of a buffer to (w, h).  The filter kernels are normalised, so a
\* constant buffer stays constant; any other buffer is sampled at the nearest
\* source pixel (the filter weights themselves are PIL's, not this program's).
Resize(buf, w, h) ==
    IF buf.kind = "flat"
      THEN [buf EXCEPT !.w = w, !.h = h]
      ELSE [w |-> w, h |-> h, kind |-> "resized", src |-> buf]

\* _resample_f32 / _resample_mask / _resample_rgb: identity when the shape
\* already matches, a PIL resize otherwise.
Resample(buf, w, h) ==
    IF buf.w = w /\ buf.h = h THEN buf ELSE Resize(buf, w, h)

\* ------------------------------------------------------------------------
\* State
\* ------------------------------------------------------------------------
VARIABLES
    \* compose_canvas.py main()
    pc,              \* position of main()
    project_exists,  \* project.json is present
    canvas_patches,  \* project["canvas"]["patches"] with each patch directory
    max_res,         \* max(64, --max-resolution)
    ld,              \* entries of canvas_patches consumed by the load loop
    loaded,          \* the list `loaded`
    log,             \* lines printed so far, as <<reason, patch_name>> (0: no patch)
    min_cx, min_cy, canvas_w, canvas_h,
    out_scale, out_w, out_h,
    out_hm, out_alpha, out_img,
    ci,              \* entries of `loaded` consumed by the composite loop
    export,          \* export_meta.json and the written rasters
    \* combine_tiles.py main() and _blend_seams()
    gpc,             \* position of main() / _blend_seams()
    tile_list,       \* the tile list file and the files its lines name
    layout,          \* --layout
    tiles,           \* the list `tiles`
    n,               \* the number of tiles read
    tile_w, tile_h, cols, rows,
    canvas,          \* the stitched canvas (the argument of _blend_seams)
    out,             \* the copy _blend_seams writes
    blend_px,
    seam,            \* loop counter of the loop in progress
    combined         \* combined_heightmap.exr and its metadata

compVars == <<pc, project_exists, canvas_patches, max_res, ld, loaded, log,
              min_cx, min_cy, canvas_w, canvas_h, out_scale, out_w, out_h,
              out_hm, out_alpha, out_img, ci, export>>

gridVars == <<gpc, tile_list, layout, tiles, n, tile_w, tile_h, cols, rows,
              canvas, out, blend_px, seam, combined>>

vars == <<compVars, gridVars>>

\* ------------------------------------------------------------------------
\* compose_canvas.py: resolution governor
\* ------------------------------------------------------------------------
\* the floor of --max-resolution
MinMaxRes == 64

MaxResOf(arg) == Max2(MinMaxRes, arg)

\* mutant of OutScale: the scale is not capped at 1.0
OutScaleNoCap(cw, ch, mr) == Rat(mr, Max2(cw, ch))

\* out_scale = min(1.0, max_res / long_side)
OutScale(cw, ch, mr) == RMin(ROne, Rat(mr, Max2(cw, ch)))

\* mutant of OutDim: the scaled extent is rounded up
OutDimCeil(extent, scale) ==
    Max2(1, -((-(extent * scale[1])) \div scale[2]))

\* max(1, int(round(extent * out_scale)))
OutDim(extent, scale) == Max2(1, PyRound(RMul(RInt(extent), scale)))

\* ------------------------------------------------------------------------
\* compose_canvas.py: canvas bounds
\* ------------------------------------------------------------------------
SetMin(S) == CHOOSE m \in S : \A v \in S : m <= v

SetMax(S) == CHOOSE m \in S : \A v \in S : m >= v

\* min(p["cx"] for p in loaded), min(p["cy"] ...)
MinLeft == SetMin({loaded[k].cx : k \in 1..Len(loaded)})

MinTop == SetMin({loaded[k].cy : k \in 1..Len(loaded)})

\* (MaxRightOfFirst is a mutant of MaxRight: the right edge of the first
\* patch alone)
\* max(p["cx"] + p["eff_w"] for p in loaded), max(p["cy"] + p["eff_h"] ...)
MaxRightOfFirst == loaded[1].cx + loaded[1].eff_w

MaxRight == SetMax({loaded[k].cx + loaded[k].eff_w : k \in 1..Len(loaded)})

MaxBottom == SetMax({loaded[k].cy + loaded[k].eff_h : k \in 1..Len(loaded)})

Bounds ==
    /\ pc = "bounds"
    /\ min_cx'   = MinLeft
    /\ min_cy'   = MinTop
    /\ canvas_w' = MaxRight - MinLeft
    /\ canvas_h' = MaxBottom - MinTop
    /\ pc' = "govern"
    /\ UNCHANGED <<project_exists, canvas_patches, max_res, ld, loaded, log,
                   out_scale, out_w, out_h, out_hm, out_alpha, out_img, ci,
                   export, gridVars>>

Govern ==
    /\ pc = "govern"
    /\ out_scale' = OutScale(canvas_w, canvas_h, max_res)
    /\ out_w' = OutDim(canvas_w, OutScale(canvas_w, canvas_h, max_res))
    /\ out_h' = OutDim(canvas_h, OutScale(canvas_w, canvas_h, max_res))
    /\ pc' = "alloc"
    /\ UNCHANGED <<project_exists, canvas_patches, max_res, ld, loaded, log,
                   min_cx, min_cy, canvas_w, canvas_h, out_hm, out_alpha,
                   out_img, ci, export, gridVars>>

\* ------------------------------------------------------------------------
\* compose_canvas.py: project check and the load loop
\* ------------------------------------------------------------------------
CheckProject ==
    /\ pc = "start"
    /\ IF ~project_exists
         THEN /\ pc' = "failed"
              /\ log' = Append(log, <<"ERROR: project.json not found", 0>>)
         ELSE IF canvas_patches = <<>>
         THEN /\ pc' = "failed"
              /\ log' = Append(log, <<"ERROR: No patches placed on canvas", 0>>)
         ELSE /\ pc' = "load"
              /\ log' = Append(log, <<"Compositing", 0>>)
    /\ UNCHANGED <<project_exists, canvas_patches, max_res, ld, loaded,
                   min_cx, min_cy, canvas_w, canvas_h, out_scale, out_w, out_h,
                   out_hm, out_alpha, out_img, ci, export, gridVars>>

\* what one iteration of the load loop does with the entry cp:
\* "crash" (uncaught exception), "skip" (continue) or "append"
LoadOutcome(cp) ==
    IF cp.meta = "missing" THEN "skip"
    ELSE IF cp.meta = "malformed" THEN "crash"
    ELSE IF cp.width_px = 0 \/ cp.height_px = 0 THEN "skip"
    ELSE IF cp.hm_file = "missing" THEN "skip"
    ELSE IF cp.hm_file = "unreadable" THEN "skip"
    ELSE "append"

\* the lines one iteration of the load loop prints for the entry cp
LoadLog(cp) ==
    IF cp.meta = "missing" THEN << <<"Skipping: meta.json not found", cp.name>> >>
    ELSE IF cp.meta = "malformed" THEN << >>
    ELSE IF cp.width_px = 0 \/ cp.height_px = 0
      THEN << <<"Skipping: width/height unknown in meta.json", cp.name>> >>
    ELSE IF cp.hm_file = "missing"
      THEN << <<"Skipping: heightmap not found", cp.name>> >>
    ELSE (IF cp.img_file = "missing"
            THEN << <<"Warning: imagery not found", cp.name>> >> ELSE << >>)
         \o
         (IF cp.hm_file = "unreadable"
            THEN << <<"Skipping: EXR read error", cp.name>> >>
            ELSE (IF cp.img_file = "unreadable"
                    THEN << <<"Warning: could not load imagery", cp.name>> >>
                    ELSE << >>)
                 \o
                 (IF cp.mask_file = "unreadable"
                    THEN << <<"Warning: could not load mask", cp.name>> >>
                    ELSE << >>)
                 \o
                 << <<"OK Loaded", cp.name>> >>)

\* max(1, int(round(src * scale_xy)))
EffExtent(src, scale_xy) == Max2(1, PyRound(RMul(RInt(src), scale_xy)))

\* the dict appended to `loaded` for the entry cp
LoadedPatch(cp) ==
    [ name     |-> cp.name,
      instance |-> cp.instance_id,
      cx       |-> cp.canvas_x,
      cy       |-> cp.canvas_y,
      eff_w    |-> EffExtent(cp.hm.w, cp.scale_xy),
      eff_h    |-> EffExtent(cp.hm.h, cp.scale_xy),
      scale_xy |-> cp.scale_xy,
      scale_z  |-> cp.scale_z,
      hm       |-> IF cp.scale_z # 1 THEN Scaled(cp.hm, cp.scale_z) ELSE cp.hm,
      has_img  |-> cp.img_file = "ok",
      img      |-> cp.img,
      mask     |-> IF cp.mask_file = "ok"
                     THEN cp.mask
                     ELSE Buf(cp.hm.w, cp.hm.h, "flat", 255) ]

LoadPatch ==
    /\ pc = "load"
    /\ ld < Len(canvas_patches)
    /\ LET cp == canvas_patches[ld + 1]
       IN  /\ log' = log \o LoadLog(cp)
           /\ loaded' = IF LoadOutcome(cp) = "append"
                          THEN Append(loaded, LoadedPatch(cp))
                          ELSE loaded
           /\ pc' = IF LoadOutcome(cp) = "crash" THEN "crashed" ELSE "load"
    /\ ld' = ld + 1
    /\ UNCHANGED <<project_exists, canvas_patches, max_res,
                   min_cx, min_cy, canvas_w, canvas_h, out_scale, out_w, out_h,
                   out_hm, out_alpha, out_img, ci, export, gridVars>>

\* mutant of NoneLoaded: the check after the load loop is left out
NoneLoadedUnchecked == FALSE

\* `if not loaded`
NoneLoaded == loaded = <<>>

LoadEnd ==
    /\ pc = "load"
    /\ ld = Len(canvas_patches)
    /\ IF NoneLoaded
         THEN /\ pc' = "failed"
              /\ log' = Append(log, <<"ERROR: No valid patches could be loaded", 0>>)
         ELSE /\ pc' = "bounds"
              /\ log' = log
    /\ UNCHANGED <<project_exists, canvas_patches, max_res, ld, loaded,
                   min_cx, min_cy, canvas_w, canvas_h, out_scale, out_w, out_h,
                   out_hm, out_alpha, out_img, ci, export, gridVars>>

\* ------------------------------------------------------------------------
\* compose_canvas.py: accumulators and the composite loop
\* ------------------------------------------------------------------------
\* pixel coordinates <<y, x>> of an array of shape (h, w)
Pixels(w, h) == (0 .. h - 1) \X (0 .. w - 1)

\* mutant of Zeros: the array is filled with ones
ZerosAsOnes(w, h) == [q \in Pixels(w, h) |-> ROne]

\* np.zeros((h, w), dtype=np.float32)
Zeros(w, h) == [q \in Pixels(w, h) |-> RZero]

Alloc ==
    /\ pc = "alloc"
    /\ out_hm'    = Zeros(out_w, out_h)
    /\ out_alpha' = Zeros(out_w, out_h)
    /\ out_img'   = [q \in Pixels(out_w, out_h) |-> <<RZero, RZero, RZero>>]
    /\ pc' = "composite"
    /\ UNCHANGED <<project_exists, canvas_patches, max_res, ld, loaded, log,
                   min_cx, min_cy, canvas_w, canvas_h, out_scale, out_w, out_h,
                   ci, export, gridVars>>

\* mutant of TargetRect: the rectangle is not clipped at the right and bottom
\* edges of the output canvas
TargetRectUnclipped(p) ==
    LET ox0 == PyRound(RMul(RInt(p.cx - min_cx), out_scale))
        oy0 == PyRound(RMul(RInt(p.cy - min_cy), out_scale))
        pw  == Max2(1, PyRound(RMul(RInt(p.eff_w), out_scale)))
        ph  == Max2(1, PyRound(RMul(RInt(p.eff_h), out_scale)))
        px0 == Max2(0, ox0)
        py0 == Max2(0, oy0)
    IN  [ ox0 |-> ox0, oy0 |-> oy0, pw |-> pw, ph |-> ph,
          ox1 |-> ox0 + pw, oy1 |-> oy0 + ph,
          px0 |-> px0, py0 |-> py0, px1 |-> ox0 + pw, py1 |-> oy0 + ph,
          sx0 |-> px0 - ox0, sy0 |-> py0 - oy0,
          sx1 |-> pw, sy1 |-> ph ]

\* the output rectangle of patch p, clipped, and the matching sub-region of
\* the resampled patch data
TargetRect(p) ==
    LET ox0 == PyRound(RMul(RInt(p.cx - min_cx), out_scale))
        oy0 == PyRound(RMul(RInt(p.cy - min_cy), out_scale))
        pw  == Max2(1, PyRound(RMul(RInt(p.eff_w), out_scale)))
        ph  == Max2(1, PyRound(RMul(RInt(p.eff_h), out_scale)))
        px0 == Max2(0, ox0)
        py0 == Max2(0, oy0)
        px1 == Min2(out_w, ox0 + pw)
        py1 == Min2(out_h, oy0 + ph)
    IN  [ ox0 |-> ox0, oy0 |-> oy0, pw |-> pw, ph |-> ph,
          ox1 |-> ox0 + pw, oy1 |-> oy0 + ph,
          px0 |-> px0, py0 |-> py0, px1 |-> px1, py1 |-> py1,
          sx0 |-> px0 - ox0, sy0 |-> py0 - oy0,
          sx1 |-> (px0 - ox0) + (px1 - px0),
          sy1 |-> (py0 - oy0) + (py1 - py0) ]

\* `if px1 <= px0 or py1 <= py0: continue`
Clipped(r) == r.px1 <= r.px0 \/ r.py1 <= r.py0

\* mutant of InRect: the right and bottom edges are taken as inclusive
InRectInclusive(q, r) ==
    r.py0 <= q[1] /\ q[1] <= r.py1 /\ r.px0 <= q[2] /\ q[2] <= r.px1

\* the output pixel q = <<y, x>> lies in the clipped rectangle r
InRect(q, r) == r.py0 <= q[1] /\ q[1] < r.py1 /\ r.px0 <= q[2] /\ q[2] < r.px1

\* the value of the resampled layer buf that is blended into output pixel q
Region(buf, r, q) ==
    At(Resample(buf, r.pw, r.ph), r.sx0 + (q[2] - r.px0), r.sy0 + (q[1] - r.py0))

\* a mask sample: the 8-bit mask value over 255
MaskValue(byte) == Rat(byte, 255)

\* the substitute for a zero denominator
Epsilon == Rat(1, 1000000)

\* mutant of Denom: the epsilon is added to every denominator
DenomPlusEpsilon(old_alpha, new_alpha) ==
    RAdd(RAdd(old_alpha, new_alpha), Epsilon)

\* mutant of Denom: the denominator is the clipped sum of the alphas
DenomClipped(old_alpha, new_alpha) ==
    IF RAdd(old_alpha, new_alpha) = RZero
      THEN Epsilon
      ELSE RClip(RAdd(old_alpha, new_alpha), RZero, ROne)

\* denom = old_alpha + new_alpha; np.where(denom == 0, 1e-6, denom)
Denom(old_alpha, new_alpha) ==
    IF RAdd(old_alpha, new_alpha) = RZero
      THEN Epsilon
      ELSE RAdd(old_alpha, new_alpha)

\* mutant of BlendValue: conventional "over" compositing, the new patch
\* occluding what lies under it in proportion to its mask
BlendValueOver(new_value, new_alpha, old_value, old_alpha) ==
    RAdd(RMul(new_value, new_alpha),
         RMul(old_value, RAdd(ROne, RMul(RInt(-1), new_alpha))))

\* mutant of BlendValue: the new value is not weighted by its mask
BlendValueNewUnweighted(new_value, new_alpha, old_value, old_alpha) ==
    RDiv(RAdd(new_value, RMul(old_value, old_alpha)),
         Denom(old_alpha, new_alpha))

\* mutant of BlendValue: the previous value is not weighted by its alpha
BlendValueOldUnweighted(new_value, new_alpha, old_value, old_alpha) ==
    RDiv(RAdd(RMul(new_value, new_alpha), old_value),
         Denom(old_alpha, new_alpha))

\* (new_value * new_alpha + old_value * old_alpha) / denom
BlendValue(new_value, new_alpha, old_value, old_alpha) ==
    RDiv(RAdd(RMul(new_value, new_alpha), RMul(old_value, old_alpha)),
         Denom(old_alpha, new_alpha))

\* mutant of BlendAlpha: the sum is not clipped
BlendAlphaNoClip(old_alpha, new_alpha) == RAdd(old_alpha, new_alpha)

\* mutant of BlendAlpha: the mask replaces the accumulated alpha
BlendAlphaReplace(old_alpha, new_alpha) == new_alpha

\* np.clip(old_alpha + new_alpha, 0, 1)
BlendAlpha(old_alpha, new_alpha) ==
    RClip(RAdd(old_alpha, new_alpha), RZero, ROne)

\* The imagery blend.  old_alpha is a numpy view of out_alpha[py0:py1, px0:px1]
\* and out_alpha has been assigned before the imagery is composited, so
\* old_alpha_3 reads the updated (clipped) alpha; denom was computed before
\* the assignment and still holds the sum of the previous alpha and the mask.
BlendColor(new_value, new_alpha, old_value, old_alpha) ==
    RDiv(RAdd(RMul(new_value, new_alpha),
              RMul(old_value, BlendAlpha(old_alpha, new_alpha))),
         Denom(old_alpha, new_alpha))

\* mutant of NextPatch: the composite loop runs over `loaded` backwards
NextPatchReversed == loaded[Len(loaded) - ci]

\* `for patch in loaded`: the patch of the iteration about to run
NextPatch == loaded[ci + 1]

CompositePatch ==
    /\ pc = "composite"
    /\ ci < Len(loaded)
    /\ LET p == NextPatch
           r == TargetRect(p)
           new_alpha(q) == MaskValue(Region(p.mask, r, q))
       IN  IF Clipped(r)
             THEN UNCHANGED <<out_hm, out_alpha, out_img>>
             ELSE /\ out_hm' =
                       [q \in DOMAIN out_hm |->
                          IF InRect(q, r)
                            THEN BlendValue(RInt(Region(p.hm, r, q)), new_alpha(q),
                                            out_hm[q], out_alpha[q])
                            ELSE out_hm[q]]
                  /\ out_alpha' =
                       [q \in DOMAIN out_alpha |->
                          IF InRect(q, r)
                            THEN BlendAlpha(out_alpha[q], new_alpha(q))
                            ELSE out_alpha[q]]
                  /\ out_img' =
                       [q \in DOMAIN out_img |->
                          IF InRect(q, r) /\ p.has_img
                            THEN [c \in 1..3 |->
                                    BlendColor(RInt(Region(p.img[c], r, q)),
                                               new_alpha(q),
                                               out_img[q][c], out_alpha[q])]
                            ELSE out_img[q]]
    /\ ci' = ci + 1
    /\ UNCHANGED <<pc, project_exists, canvas_patches, max_res, ld, loaded, log,
                   min_cx, min_cy, canvas_w, canvas_h, out_scale, out_w, out_h,
                   export, gridVars>>

\* np.clip(v, 0, 255).astype(np.uint8)
ToByte(v) == LET c == RClip(v, RZero, RInt(255)) IN c[1] \div c[2]

RLeast(S) == CHOOSE m \in S : \A v \in S : RLe(m, v)

RGreatest(S) == CHOOSE m \in S : \A v \in S : RLe(v, m)

\* the three output files
WriteExport ==
    /\ pc = "composite"
    /\ ci = Len(loaded)
    /\ export' =
         [ written     |-> TRUE,
           heightmap   |-> out_hm,
           imagery     |-> [q \in DOMAIN out_img |->
                              [c \in 1..3 |-> ToByte(out_img[q][c])]],
           max_resolution   |-> max_res,
           output_width_px  |-> out_w,
           output_height_px |-> out_h,
           canvas_width_px  |-> canvas_w,
           canvas_height_px |-> canvas_h,
           patch_count |-> Len(loaded),
           elev_min_m  |-> RLeast({out_hm[q] : q \in DOMAIN out_hm}),
           elev_max_m  |-> RGreatest({out_hm[q] : q \in DOMAIN out_hm}),
           patches     |-> [k \in 1..Len(loaded) |-> loaded[k].instance] ]
    /\ pc' = "done"
    /\ UNCHANGED <<project_exists, canvas_patches, max_res, ld, loaded, log,
                   min_cx, min_cy, canvas_w, canvas_h, out_scale, out_w, out_h,
                   out_hm, out_alpha, out_img, ci, gridVars>>

\* ------------------------------------------------------------------------
\* Inputs of the placement compositor
\* ------------------------------------------------------------------------
\* the most patches in an enumerated project
MaxPatches == 3

\* canvas_x / canvas_y and the native sizes of the enumerated patches
PatchOffsets == {0, 1}

PatchWidths == {1, 2}

PatchHeights == {1}

\* the default of --max-resolution
DefaultMaxRes == 8192

\* mask.png of a patch: absent (all ones), or an 8-bit image
MaskKinds == {"none", "half", "zero", "edge"}

MaskBuf(kind, w, h) ==
    CASE kind = "half" -> Buf(w, h, "flat", 153)
      [] kind = "fifth" -> Buf(w, h, "flat", 51)
      [] kind = "twofifths" -> Buf(w, h, "flat", 102)
      [] kind = "zero" -> Buf(w, h, "flat", 0)
      [] kind = "edge" -> Buf(w, h, "edge", 255)
      [] OTHER         -> Buf(w, h, "flat", 255)

\* scale_z and the imagery file of a patch
Looks == { [scale_z |-> 1, img_file |-> "missing"],
           [scale_z |-> 2, img_file |-> "ok"] }

\* what is wrong with a patch directory, if anything
Faults == {"meta_missing", "meta_malformed", "zero_dim", "hm_missing",
           "hm_unreadable", "img_unreadable", "mask_unreadable"}

\* the k-th entry of the patch list: named after its position, elevation and
\* imagery distinct from those of the other entries
Entry(k, cx, cy, w, h, hmkind, mask, look, fault) ==
    [ name        |-> k,
      instance_id |-> k,
      canvas_x    |-> cx,
      canvas_y    |-> cy,
      scale_xy    |-> ROne,
      scale_z     |-> look.scale_z,
      meta        |-> CASE fault = "meta_missing"   -> "missing"
                        [] fault = "meta_malformed" -> "malformed"
                        [] OTHER                    -> "ok",
      width_px    |-> IF fault = "zero_dim" THEN 0 ELSE w,
      height_px   |-> h,
      hm_file     |-> CASE fault = "hm_missing"    -> "missing"
                        [] fault = "hm_unreadable" -> "unreadable"
                        [] OTHER                   -> "ok",
      hm          |-> Buf(w, h, hmkind, 10 * k),
      img_file    |-> IF fault = "img_unreadable" THEN "unreadable"
                      ELSE look.img_file,
      img         |-> << Buf(w, h, hmkind, 40 * k), Buf(w, h, "flat", 100),
                         Buf(w, h, "flat", 7 * k) >>,
      mask_file   |-> CASE fault = "mask_unreadable" -> "unreadable"
                        [] mask = "none"             -> "missing"
                        [] OTHER                     -> "ok",
      mask        |-> MaskBuf(mask, w, h) ]

\* the choices for one entry of a small project
GoodChoices ==
    [ cx : PatchOffsets, cy : PatchOffsets, w : PatchWidths, h : PatchHeights,
      mask : MaskKinds, look : Looks, fault : {"none"} ]

\* the choices for the entries of a project of three or more patches:
\* overlapping placements, opaque or partial masks
CoreChoices ==
    [ cx : {0, 1}, cy : {0}, w : {2}, h : {1},
      mask : {"none", "half"}, look : {[scale_z |-> 2, img_file |-> "ok"]},
      fault : {"none"} ]

BadChoices ==
    [ cx : {0}, cy : {0}, w : {1}, h : {1},
      mask : {"half"}, look : {[scale_z |-> 1, img_file |-> "ok"]},
      fault : Faults ]

Choices == GoodChoices \cup BadChoices

\* the project whose k-th entry is made from the choice f[k]
ProjectOf(f) ==
    [k \in DOMAIN f |->
       Entry(k, f[k].cx, f[k].cy, f[k].w, f[k].h, "grad",
             f[k].mask, f[k].look, f[k].fault)]

\* every project of up to two entries, and the projects of three to
\* MaxPatches overlapping entries
SmallProjects ==
    UNION { {ProjectOf(f) : f \in [1..len -> Choices]} : len \in 0..2 }
    \cup
    UNION { {ProjectOf(f) : f \in [1..len -> CoreChoices]} : len \in 3..MaxPatches }

\* main() of compose_canvas.py has not run
CompStart(project, present, arg) ==
    /\ pc = "start"
    /\ project_exists = present
    /\ canvas_patches = project
    /\ max_res = MaxResOf(arg)
    /\ ld = 0
    /\ loaded = <<>>
    /\ log = <<>>
    /\ min_cx = 0 /\ min_cy = 0 /\ canvas_w = 0 /\ canvas_h = 0
    /\ out_scale = ROne /\ out_w = 0 /\ out_h = 0
    /\ out_hm = <<>> /\ out_alpha = <<>> /\ out_img = <<>>
    /\ ci = 0
    /\ export = [written |-> FALSE]

\* main() of combine_tiles.py has not run
GridIdle ==
    /\ gpc = "idle"
    /\ tile_list = [present |-> FALSE, lines |-> <<>>]
    /\ layout = "auto"
    /\ tiles = <<>>
    /\ n = 0
    /\ tile_w = 0 /\ tile_h = 0 /\ cols = 0 /\ rows = 0
    /\ canvas = <<>> /\ out = <<>>
    /\ blend_px = 0
    /\ seam = 0
    /\ combined = [written |-> FALSE]

Init ==
    /\ \E project \in SmallProjects, present \in BOOLEAN :
          /\ (~present => project = <<>>)
          /\ CompStart(project, present, DefaultMaxRes)
    /\ GridIdle

Next ==
    \/ CheckProject
    \/ LoadPatch
    \/ LoadEnd
    \/ Bounds
    \/ Govern
    \/ Alloc
    \/ CompositePatch
    \/ WriteExport

Spec == Init /\ [][Next]_vars

\* ------------------------------------------------------------------------
\* Properties of the placement compositor
\* ------------------------------------------------------------------------
\* the composite loop is running or has finished
Compositing == pc \in {"composite", "done"}

\* the clipped output rectangle of the k-th loaded patch contains pixel q
Covers(k, q) ==
    LET r == TargetRect(loaded[k])
    IN  /\ Max2(0, r.oy0) <= q[1] /\ q[1] < Min2(out_h, r.oy0 + r.ph)
        /\ Max2(0, r.ox0) <= q[2] /\ q[2] < Min2(out_w, r.ox0 + r.pw)

\* the resampled elevation, mask byte and colour of the k-th loaded patch at
\* the output pixel q
HmAt(k, q) ==
    LET r == TargetRect(loaded[k])
    IN  At(Resample(loaded[k].hm, r.pw, r.ph), q[2] - r.ox0, q[1] - r.oy0)

MaskAt(k, q) ==
    LET r == TargetRect(loaded[k])
    IN  At(Resample(loaded[k].mask, r.pw, r.ph), q[2] - r.ox0, q[1] - r.oy0)

ImgAt(k, q) ==
    LET r == TargetRect(loaded[k])
    IN  [c \in 1..3 |->
           RInt(At(Resample(loaded[k].img[c], r.pw, r.ph),
                   q[2] - r.ox0, q[1] - r.oy0))]

\* the k-th loaded patch covers the whole output canvas with mask 1
OpaqueCover(k) ==
    \A q \in Pixels(out_w, out_h) : Covers(k, q) /\ MaskAt(k, q) = 255

\* C1: after any prefix of the loaded patch list has been applied, every
\* pixel of the alpha accumulator out_alpha lies in [0,1] (in every
\* intermediate state of the composite loop, not only the last)
C1_AlphaInUnitRange ==
    Compositing =>
        \A q \in DOMAIN out_alpha :
            RLe(RZero, out_alpha[q]) /\ RLe(out_alpha[q], ROne)

\* C1 witness: two patches have been applied and at some pixel their masks
\* sum to more than 1, so the clamp has acted
C1_Witness ==
    /\ pc = "composite" /\ ci = 2
    /\ \E q \in DOMAIN out_alpha :
          /\ Covers(1, q) /\ Covers(2, q)
          /\ MaskAt(1, q) + MaskAt(2, q) > 255
          /\ out_alpha[q] = ROne

\* C2 as claimed: once a fully-opaque patch covering the whole canvas has been
\* applied, elevation and colour equal that patch's own resampled values at
\* every pixel, whatever was applied before it
C2_Original ==
    (Compositing /\ ci >= 1 /\ OpaqueCover(ci)) =>
        \A q \in Pixels(out_w, out_h) :
            /\ out_hm[q] = RInt(HmAt(ci, q))
            /\ loaded[ci].has_img => out_img[q] = ImgAt(ci, q)

\* C2 amended: applying a fully-opaque patch that covers the whole canvas
\* leaves its own elevation and colour at every pixel whose accumulated alpha
\* was 0 before it; at a pixel with earlier alpha a > 0 the elevation becomes
\* the weighted average (v + a*old) / (1 + a) of its value v and the earlier
\* elevation
C2_OpaqueCoverBlend ==
    [][ (pc = "composite" /\ ci' = ci + 1 /\ OpaqueCover(ci + 1)) =>
          \A q \in Pixels(out_w, out_h) :
             /\ out_alpha[q] = RZero =>
                   /\ out_hm'[q] = RInt(HmAt(ci + 1, q))
                   /\ loaded[ci + 1].has_img => out_img'[q] = ImgAt(ci + 1, q)
             /\ out_hm'[q] =
                   RDiv(RAdd(RInt(HmAt(ci + 1, q)),
                             RMul(out_alpha[q], out_hm[q])),
                        RAdd(ROne, out_alpha[q])) ]_vars

\* C2 witness: an opaque covering patch with imagery has been applied second,
\* over a pixel an earlier patch had left with positive alpha and over a pixel
\* still at alpha 0
C2_Witness ==
    /\ pc = "composite" /\ ci = 2 /\ OpaqueCover(2) /\ loaded[2].has_img
    /\ \E q \in Pixels(out_w, out_h) : Covers(1, q) /\ MaskAt(1, q) > 0
    /\ \E q \in Pixels(out_w, out_h) :
          /\ ~Covers(1, q)
          /\ out_hm[q] = RInt(HmAt(2, q))
          /\ out_img[q] = ImgAt(2, q)

\* C3: two fully-opaque patches over exactly the same output region, applied
\* one after the other onto the empty canvas, leave at every pixel of the
\* region the equal-weight average of their two elevations
C3_EqualWeightAverage ==
    ( /\ Compositing /\ ci = 2
      /\ \A q \in Pixels(out_w, out_h) : Covers(1, q) <=> Covers(2, q)
      /\ \A q \in Pixels(out_w, out_h) :
            Covers(1, q) => MaskAt(1, q) = 255 /\ MaskAt(2, q) = 255 ) =>
        \A q \in Pixels(out_w, out_h) :
            Covers(1, q) =>
                out_hm[q] = Rat(HmAt(1, q) + HmAt(2, q), 2)

\* C3 witness: two such patches with different elevations have been applied,
\* and the result is not the later patch's value
C3_Witness ==
    /\ pc = "composite" /\ ci = 2
    /\ \A q \in Pixels(out_w, out_h) : Covers(1, q) <=> Covers(2, q)
    /\ \A q \in Pixels(out_w, out_h) :
          Covers(1, q) => MaskAt(1, q) = 255 /\ MaskAt(2, q) = 255
    /\ \E q \in Pixels(out_w, out_h) :
          /\ Covers(1, q)
          /\ HmAt(1, q) # HmAt(2, q)
          /\ out_hm[q] # RInt(HmAt(2, q))

\* the output footprints of the two loaded patches share no pixel
Disjoint2 ==
    /\ Len(loaded) = 2
    /\ \A q \in Pixels(out_w, out_h) : ~(Covers(1, q) /\ Covers(2, q))

\* C4: after two patches with disjoint output footprints have both been
\* composited (either order), each pixel of a footprint with positive mask
\* holds that patch's own resampled elevation, and every pixel outside both
\* footprints has alpha 0, elevation 0 and colour 0
C4_DisjointFrame ==
    (Compositing /\ ci = 2 /\ Disjoint2) =>
        \A q \in Pixels(out_w, out_h) :
            /\ \A k \in 1..2 :
                  (Covers(k, q) /\ MaskAt(k, q) > 0) =>
                      out_hm[q] = RInt(HmAt(k, q))
            /\ (~Covers(1, q) /\ ~Covers(2, q)) =>
                  /\ out_alpha[q] = RZero
                  /\ out_hm[q] = RZero
                  /\ out_img[q] = <<RZero, RZero, RZero>>

\* C4 witness: two disjoint patches with partial masks have been composited
\* and the canvas has a pixel outside both footprints
C4_Witness ==
    /\ pc = "composite" /\ ci = 2 /\ Disjoint2
    /\ \E q \in Pixels(out_w, out_h) : ~Covers(1, q) /\ ~Covers(2, q)
    /\ \E q \in Pixels(out_w, out_h) : Covers(1, q) /\ MaskAt(1, q) = 153
    /\ \E q \in Pixels(out_w, out_h) :
          Covers(2, q) /\ MaskAt(2, q) > 0 /\ out_hm[q] = RInt(HmAt(2, q))

\* ------------------------------------------------------------------------
\* The resolution governor on canvases of every extent
\* ------------------------------------------------------------------------
\* the largest enumerated canvas side
MaxExtent == 70

GovExtents ==
    ((1..3) \cup (62..MaxExtent)) \X ((1..3) \cup (62..MaxExtent))
        \cup {<<5000, 3000>>, <<10000, 4000>>}

GovArgs == {1, 66, 4096, DefaultMaxRes}

\* a project of one opaque patch whose extent is the canvas extent
InitGov ==
    /\ \E e \in GovExtents, arg \in GovArgs, off \in PatchOffsets :
          CompStart(<< Entry(1, off, off, e[1], e[2], "flat", "none",
                             [scale_z |-> 1, img_file |-> "missing"],
                             "none") >>,
                    TRUE, arg)
    /\ GridIdle

NextGov ==
    \/ CheckProject
    \/ LoadPatch
    \/ LoadEnd
    \/ Bounds
    \/ Govern

SpecGov == InitGov /\ [][NextGov]_vars

\* C6: for every canvas extent with both sides >= 1 and every max_resolution
\* >= 64 the governor's output satisfies max(out_w, out_h) <= max_resolution,
\* out_w <= canvas_w, out_h <= canvas_h, out_w >= 1 and out_h >= 1
C6_GovernorWithinBudget ==
    (pc = "alloc" /\ canvas_w >= 1 /\ canvas_h >= 1 /\ max_res >= 64) =>
        /\ Max2(out_w, out_h) <= max_res
        /\ out_w <= canvas_w /\ out_h <= canvas_h
        /\ out_w >= 1 /\ out_h >= 1

\* C6 witness: a canvas longer than the budget has been scaled down to it
C6_Witness ==
    /\ pc = "alloc"
    /\ Max2(canvas_w, canvas_h) > max_res
    /\ RLt(out_scale, ROne)
    /\ Max2(out_w, out_h) = max_res
    /\ Min2(out_w, out_h) = 1

\* C7 as claimed: bounds (5000, 3000) with max_resolution 8192 give scale 1.0
\* and dimensions (5000, 3000); bounds (10000, 4000) with max_resolution 4096
\* give scale 0.4096 and dimensions (4096, 1639)
C7_Original ==
    pc = "alloc" =>
        /\ (canvas_w = 5000 /\ canvas_h = 3000 /\ max_res = 8192) =>
              (out_scale = ROne /\ out_w = 5000 /\ out_h = 3000)
        /\ (canvas_w = 10000 /\ canvas_h = 4000 /\ max_res = 4096) =>
              (out_scale = Rat(4096, 10000) /\ out_w = 4096 /\ out_h = 1639)

\* C7 amended: bounds (5000, 3000) with max_resolution 8192 give scale 1.0 and
\* dimensions (5000, 3000); bounds (10000, 4000) with max_resolution 4096 give
\* scale 0.4096 and dimensions (4096, 1638), since 4000 * 0.4096 = 1638.4
C7_GovernorExamples ==
    pc = "alloc" =>
        /\ (canvas_w = 5000 /\ canvas_h = 3000 /\ max_res = 8192) =>
              (out_scale = ROne /\ out_w = 5000 /\ out_h = 3000)
        /\ (canvas_w = 10000 /\ canvas_h = 4000 /\ max_res = 4096) =>
              (out_scale = Rat(4096, 10000) /\ out_w = 4096 /\ out_h = 1638)

\* C7 witness: the governor has run on bounds (10000, 4000) with
\* max_resolution 4096
C7_Witness ==
    /\ pc = "alloc"
    /\ canvas_w = 10000 /\ canvas_h = 4000 /\ max_res = 4096
    /\ out_h = 1638

\* ------------------------------------------------------------------------
\* Projects whose opaque patches tile the canvas
\* ------------------------------------------------------------------------
\* the most patches in a tiling row
MaxRow == 3

TileWidths == {22, 43, 64}

TileHeights == {1, 2}

\* the canvas_x of the k-th patch of a row of patches of widths ws
RECURSIVE RowLeft(_, _)
RowLeft(ws, k) == IF k = 1 THEN 0 ELSE RowLeft(ws, k - 1) + ws[k - 1]

\* a row of opaque patches, each starting where the previous one ends
TilingProjects ==
    UNION { { [k \in 1..len |->
                 Entry(k, RowLeft(ws, k), 0, ws[k], h, "flat", "none",
                       [scale_z |-> 1, img_file |-> "ok"], "none")] :
              ws \in [1..len -> TileWidths], h \in TileHeights } :
            len \in 1..MaxRow }

InitTile ==
    /\ \E project \in TilingProjects, arg \in {MinMaxRes, DefaultMaxRes} :
          CompStart(project, TRUE, arg)
    /\ GridIdle

SpecTile == InitTile /\ [][Next]_vars

\* canvas pixel (x, y) lies in the canvas-space rectangle of loaded patch k
CanvasCovers(k, x, y) ==
    /\ loaded[k].cx <= x /\ x < loaded[k].cx + loaded[k].eff_w
    /\ loaded[k].cy <= y /\ y < loaded[k].cy + loaded[k].eff_h

\* the loaded patches are fully opaque, do not overlap in canvas space and
\* together cover every pixel of the canvas bounding rectangle
OpaqueTiling ==
    /\ \A k \in 1..Len(loaded) :
          \A x \in 0..(loaded[k].mask.w - 1), y \in 0..(loaded[k].mask.h - 1) :
             At(loaded[k].mask, x, y) = 255
    /\ \A x \in min_cx..(min_cx + canvas_w - 1),
          y \in min_cy..(min_cy + canvas_h - 1) :
          Cardinality({k \in 1..Len(loaded) : CanvasCovers(k, x, y)}) = 1

\* C5: when the loaded patches are an opaque tiling of the canvas, then for
\* every max_resolution the composite leaves no output pixel with alpha 0 and
\* no output pixel written by more than one patch, and each output pixel holds
\* the value of the one patch covering it
C5_Original ==
    (pc = "done" /\ OpaqueTiling) =>
        \A q \in Pixels(out_w, out_h) :
            /\ out_alpha[q] # RZero
            /\ Cardinality({k \in 1..Len(loaded) : Covers(k, q)}) = 1
            /\ \A k \in 1..Len(loaded) :
                  Covers(k, q) => out_hm[q] = RInt(HmAt(k, q))

\* ------------------------------------------------------------------------
\* combine_tiles.py: grid layout
\* ------------------------------------------------------------------------
\* mutant of Better: a candidate as square as the best so far replaces it
BetterOrEqual(diff, best_diff) == diff <= best_diff

\* `if diff < best_diff`
Better(diff, best_diff) == diff < best_diff

\* the loop `for cols in range(1, n + 1)` from candidate c on;
\* best is <<best_cols, best_rows, best_diff>>
RECURSIVE GridScan(_, _, _)
GridScan(num, c, best) ==
    IF c > num THEN best
    ELSE LET r    == CeilDiv(num, c)
             diff == Abs(c - r)
         IN  GridScan(num, c + 1,
                      IF Better(diff, best[3]) THEN <<c, r, diff>> ELSE best)

\* _compute_grid(n, layout): <<cols, rows>>
ComputeGrid(num, lay) ==
    IF lay = "horizontal" THEN <<num, 1>>
    ELSE IF lay = "vertical" THEN <<1, num>>
    ELSE LET best == GridScan(num, 1, <<num, 1, Abs(num - 1)>>)
         IN  <<best[1], best[2]>>

\* ------------------------------------------------------------------------
\* combine_tiles.py: main()
\* ------------------------------------------------------------------------
\* the lines of the tile list that name an existing file
TilePaths == SelectSeq(tile_list.lines, LAMBDA t : t.exists)

ReadTileList ==
    /\ gpc = "start"
    /\ gpc' = IF ~tile_list.present \/ TilePaths = <<>> THEN "failed" ELSE "read"
    /\ UNCHANGED <<tile_list, layout, tiles, n, tile_w, tile_h, cols, rows,
                   canvas, out, blend_px, seam, combined, compVars>>

\* one iteration of the loop over tile_paths: _read_exr raises on a file
\* that is not a readable EXR, and nothing catches it
ReadTile ==
    /\ gpc = "read"
    /\ Len(tiles) < Len(TilePaths)
    /\ LET t == TilePaths[Len(tiles) + 1]
       IN  IF t.readable
             THEN /\ tiles' = Append(tiles, [data |-> t.data,
                                             width |-> t.data.w,
                                             height |-> t.data.h])
                  /\ gpc' = gpc
             ELSE /\ tiles' = tiles
                  /\ gpc' = "crashed"
    /\ UNCHANGED <<tile_list, layout, n, tile_w, tile_h, cols, rows,
                   canvas, out, blend_px, seam, combined, compVars>>

\* tiles of different sizes are resampled to the largest width and height;
\* then tile_w, tile_h, n and the grid are fixed
SizeAndLayout ==
    /\ gpc = "read"
    /\ Len(tiles) = Len(TilePaths)
    /\ LET widths   == {tiles[k].width : k \in 1..Len(tiles)}
           heights  == {tiles[k].height : k \in 1..Len(tiles)}
           target_w == SetMax(widths)
           target_h == SetMax(heights)
           sized ==
             IF Cardinality(widths) > 1 \/ Cardinality(heights) > 1
               THEN [k \in 1..Len(tiles) |->
                       IF tiles[k].width # target_w \/ tiles[k].height # target_h
                         THEN [data   |-> Resize(tiles[k].data, target_w, target_h),
                               width  |-> target_w,
                               height |-> target_h]
                         ELSE tiles[k]]
               ELSE tiles
       IN  /\ tiles'  = sized
           /\ tile_w' = sized[1].width
           /\ tile_h' = sized[1].height
           /\ n'      = Len(sized)
           /\ cols'   = ComputeGrid(Len(sized), layout)[1]
           /\ rows'   = ComputeGrid(Len(sized), layout)[2]
    /\ gpc' = "pad"
    /\ UNCHANGED <<tile_list, layout, canvas, out, blend_px, seam, combined,
                   compVars>>

\* np.zeros((tile_h, tile_w))
BlankTile == [data |-> Buf(tile_w, tile_h, "flat", 0),
              width |-> tile_w, height |-> tile_h]

\* mutant of NeedsPad: the padding stops one tile short
NeedsPadOneShort == Len(tiles) < cols * rows - 1

\* `while len(tiles) < cols * rows`
NeedsPad == Len(tiles) < cols * rows

\* one iteration of the padding loop
PadTile ==
    /\ gpc = "pad"
    /\ NeedsPad
    /\ tiles' = Append(tiles, BlankTile)
    /\ UNCHANGED <<gpc, tile_list, layout, n, tile_w, tile_h, cols, rows,
                   canvas, out, blend_px, seam, combined, compVars>>

NewCanvas ==
    /\ gpc = "pad"
    /\ ~NeedsPad
    /\ canvas' = [q \in Pixels(cols * tile_w, rows * tile_h) |-> RZero]
    /\ seam' = 0
    /\ gpc' = "stitch"
    /\ UNCHANGED <<tile_list, layout, tiles, n, tile_w, tile_h, cols, rows,
                   out, blend_px, combined, compVars>>

\* mutant of TileRow: the index is divided by the number of rows
TileRowByRows(idx) == idx \div rows

\* row = idx // cols
TileRow(idx) == idx \div cols

\* col = idx % cols
TileCol(idx) == idx % cols

\* one iteration of `for idx, tile in enumerate(tiles[:cols * rows])`;
\* seam counts the tiles placed
PlaceTile ==
    /\ gpc = "stitch"
    /\ seam < Min2(Len(tiles), cols * rows)
    /\ LET row == TileRow(seam)
           col == TileCol(seam)
           y0  == row * tile_h
           y1  == y0 + tile_h
           x0  == col * tile_w
           x1  == x0 + tile_w
       IN  canvas' = [q \in DOMAIN canvas |->
                        IF y0 <= q[1] /\ q[1] < y1 /\ x0 <= q[2] /\ q[2] < x1
                          THEN RInt(At(tiles[seam + 1].data, q[2] - x0, q[1] - y0))
                          ELSE canvas[q]]
    /\ seam' = seam + 1
    /\ UNCHANGED <<gpc, tile_list, layout, tiles, n, tile_w, tile_h, cols, rows,
                   out, blend_px, combined, compVars>>

\* the seam width main() passes to _blend_seams
BlendPx == 4

CallBlend ==
    /\ gpc = "stitch"
    /\ seam = Min2(Len(tiles), cols * rows)
    /\ blend_px' = BlendPx
    /\ gpc' = "blend"
    /\ UNCHANGED <<tile_list, layout, tiles, n, tile_w, tile_h, cols, rows,
                   canvas, out, seam, combined, compVars>>

\* ------------------------------------------------------------------------
\* combine_tiles.py: _blend_seams
\* ------------------------------------------------------------------------
\* h, w = canvas.shape
CanvasW == SetMax({q[2] : q \in DOMAIN canvas}) + 1

CanvasH == SetMax({q[1] : q \in DOMAIN canvas}) + 1

\* left/top = max(0, pos - blend_px); right/bottom = min(extent - 1, pos + blend_px)
BandLo(pos) == Max2(0, pos - blend_px)

BandHi(pos, extent) == Min2(extent - 1, pos + blend_px)

\* mutant of RampAlpha: the band is taken one pixel wider than it is
RampAlphaWide(p, lo, hi) == Rat(p - lo, Max2(1, hi - lo + 1))

\* alpha = (px - left) / max(1, right - left)
RampAlpha(p, lo, hi) == Rat(p - lo, Max2(1, hi - lo))

\* (1.0 - alpha) * a + alpha * b
Mix(alpha, a, b) ==
    RAdd(RMul(RAdd(ROne, RMul(RInt(-1), alpha)), a), RMul(alpha, b))

\* out = canvas.copy()
BlendBegin ==
    /\ gpc = "blend"
    /\ out' = canvas
    /\ seam' = 1
    /\ gpc' = "vseams"
    /\ UNCHANGED <<tile_list, layout, tiles, n, tile_w, tile_h, cols, rows,
                   canvas, blend_px, combined, compVars>>

\* one iteration of `for col in range(1, cols)`
BlendVSeam ==
    /\ gpc = "vseams"
    /\ seam < cols
    /\ LET x     == seam * tile_w
           left  == BandLo(x)
           right == BandHi(x, CanvasW)
       IN  out' = IF x >= CanvasW
                    THEN out
                    ELSE [q \in DOMAIN out |->
                            IF left <= q[2] /\ q[2] <= right
                              THEN Mix(RampAlpha(q[2], left, right),
                                       canvas[<<q[1], left>>],
                                       canvas[<<q[1], right>>])
                              ELSE out[q]]
    /\ seam' = seam + 1
    /\ UNCHANGED <<gpc, tile_list, layout, tiles, n, tile_w, tile_h, cols, rows,
                   canvas, blend_px, combined, compVars>>

BlendVEnd ==
    /\ gpc = "vseams"
    /\ seam >= cols
    /\ seam' = 1
    /\ gpc' = "hseams"
    /\ UNCHANGED <<tile_list, layout, tiles, n, tile_w, tile_h, cols, rows,
                   canvas, out, blend_px, combined, compVars>>

\* one iteration of `for row in range(1, rows)`
BlendHSeam ==
    /\ gpc = "hseams"
    /\ seam < rows
    /\ LET y      == seam * tile_h
           top    == BandLo(y)
           bottom == BandHi(y, CanvasH)
       IN  out' = IF y >= CanvasH
                    THEN out
                    ELSE [q \in DOMAIN out |->
                            IF top <= q[1] /\ q[1] <= bottom
                              THEN Mix(RampAlpha(q[1], top, bottom),
                                       canvas[<<top, q[2]>>],
                                       canvas[<<bottom, q[2]>>])
                              ELSE out[q]]
    /\ seam' = seam + 1
    /\ UNCHANGED <<gpc, tile_list, layout, tiles, n, tile_w, tile_h, cols, rows,
                   canvas, blend_px, combined, compVars>>

\* return out; main() assigns it to canvas
BlendReturn ==
    /\ gpc = "hseams"
    /\ seam >= rows
    /\ canvas' = out
    /\ gpc' = "write"
    /\ UNCHANGED <<tile_list, layout, tiles, n, tile_w, tile_h, cols, rows,
                   out, blend_px, seam, combined, compVars>>

\* combined_heightmap.exr and combined_heightmap_meta.txt
WriteCombined ==
    /\ gpc = "write"
    /\ combined' =
         [ written     |-> TRUE,
           heightmap   |-> canvas,
           total_tiles |-> Len(TilePaths),
           cols        |-> cols,
           rows        |-> rows,
           tile_w      |-> tile_w,
           tile_h      |-> tile_h,
           canvas_w    |-> cols * tile_w,
           canvas_h    |-> rows * tile_h,
           min_elev    |-> RLeast({canvas[q] : q \in DOMAIN canvas}),
           max_elev    |-> RGreatest({canvas[q] : q \in DOMAIN canvas}) ]
    /\ gpc' = "done"
    /\ UNCHANGED <<tile_list, layout, tiles, n, tile_w, tile_h, cols, rows,
                   canvas, out, blend_px, seam, compVars>>

\* ------------------------------------------------------------------------
\* Inputs of the grid tiler
\* ------------------------------------------------------------------------
\* main() of compose_canvas.py does not run
CompIdle ==
    /\ pc = "idle"
    /\ project_exists = FALSE
    /\ canvas_patches = <<>>
    /\ max_res = MinMaxRes
    /\ ld = 0
    /\ loaded = <<>>
    /\ log = <<>>
    /\ min_cx = 0 /\ min_cy = 0 /\ canvas_w = 0 /\ canvas_h = 0
    /\ out_scale = ROne /\ out_w = 0 /\ out_h = 0
    /\ out_hm = <<>> /\ out_alpha = <<>> /\ out_img = <<>>
    /\ ci = 0
    /\ export = [written |-> FALSE]

\* the most lines in a tile list
MaxTiles == 8

Layouts == {"auto", "horizontal", "vertical", "grid"}

TileDims == {<<1, 1>>, <<2, 1>>, <<1, 2>>}

TileFaults == {"none", "missing", "corrupt"}

\* a tile list of len lines; the file of line `at` has the fault, and with
\* `odd` the second tile is one pixel wider than the others
TileLines(len, fault, at, dim, odd) ==
    [k \in 1..len |->
       [ exists   |-> ~(fault = "missing" /\ k = at),
         readable |-> ~(fault = "corrupt" /\ k = at),
         data     |-> Buf(IF odd /\ k = 2 THEN dim[1] + 1 ELSE dim[1], dim[2],
                          "grad", 100 * k) ]]

TileLists ==
    {[present |-> FALSE, lines |-> <<>>], [present |-> TRUE, lines |-> <<>>]}
    \cup
    { [present |-> TRUE, lines |-> TileLines(len, fault, at, dim, odd)] :
        len \in 1..MaxTiles, fault \in TileFaults, at \in {1, 2},
        dim \in TileDims, odd \in BOOLEAN }

InitGrid ==
    /\ CompIdle
    /\ gpc = "start"
    /\ tile_list \in TileLists
    /\ layout \in Layouts
    /\ tiles = <<>>
    /\ n = 0
    /\ tile_w = 0 /\ tile_h = 0 /\ cols = 0 /\ rows = 0
    /\ canvas = <<>> /\ out = <<>>
    /\ blend_px = 0
    /\ seam = 0
    /\ combined = [written |-> FALSE]

NextGrid ==
    \/ ReadTileList
    \/ ReadTile
    \/ SizeAndLayout
    \/ PadTile
    \/ NewCanvas
    \/ PlaceTile
    \/ CallBlend
    \/ BlendBegin
    \/ BlendVSeam
    \/ BlendVEnd
    \/ BlendHSeam
    \/ BlendReturn
    \/ WriteCombined

SpecGrid == InitGrid /\ [][NextGrid]_vars

\* ------------------------------------------------------------------------
\* Properties of the grid layout
\* ------------------------------------------------------------------------
\* the grid has been computed
GridKnown == gpc \in {"pad", "stitch", "blend", "vseams", "hseams", "write", "done"}

\* how far from square c columns are for num tiles
Squareness(num, c) == Abs(c - CeilDiv(num, c))

\* the smallest column count in 1..num of a most-square grid
MostSquareCols(num) ==
    SetMin({c \in 1..num : \A d \in 1..num : Squareness(num, c) <= Squareness(num, d)})

\* C8 as claimed: for every N >= 1 the auto layout returns rows = ceil(N/cols)
\* with cols the smallest value in 1..N that minimises |cols - ceil(N/cols)|
C8_Original ==
    (GridKnown /\ layout = "auto") =>
        /\ cols = MostSquareCols(n)
        /\ rows = CeilDiv(n, cols)

\* C8 amended: for every N >= 1 other than 2 the auto layout returns
\* rows = ceil(N/cols) with cols the smallest value in 1..N that minimises
\* |cols - ceil(N/cols)|; for N = 2 no candidate is strictly more square than
\* the initial one (cols = N, rows = 1), which is kept: the result is (2, 1)
C8_AutoGridMostSquare ==
    (GridKnown /\ layout = "auto") =>
        /\ n # 2 => cols = MostSquareCols(n)
        /\ n = 2 => cols = 2
        /\ rows = CeilDiv(n, cols)

\* C8 witness: the auto layout has been computed for 6 tiles, where 2 and 3
\* columns are equally square, and the smaller was chosen
C8_Witness ==
    /\ gpc = "pad" /\ layout = "auto" /\ n = 6
    /\ Squareness(6, 2) = Squareness(6, 3)
    /\ cols = 2 /\ rows = 3

\* C9 as claimed: the auto layout gives cols=3, rows=2 for 6 tiles, cols=1,
\* rows=1 for 1 tile, and cols=3, rows=3 with exactly 2 blank padding tiles
\* for 7 tiles
C9_Original ==
    (gpc = "stitch" /\ layout = "auto") =>
        /\ n = 6 => (cols = 3 /\ rows = 2)
        /\ n = 1 => (cols = 1 /\ rows = 1)
        /\ n = 7 => (cols = 3 /\ rows = 3 /\ Len(tiles) - n = 2)

\* C9 amended: the auto layout gives cols=2, rows=3 for 6 tiles, cols=1,
\* rows=1 for 1 tile, and cols=3, rows=3 with exactly 2 blank (zero-valued)
\* padding tiles for 7 tiles
C9_AutoGridExamples ==
    (gpc = "stitch" /\ layout = "auto") =>
        /\ n = 6 => (cols = 2 /\ rows = 3)
        /\ n = 1 => (cols = 1 /\ rows = 1)
        /\ n = 7 => /\ cols = 3 /\ rows = 3
                    /\ Len(tiles) - n = 2
                    /\ \A k \in (n + 1)..Len(tiles) :
                          \A x \in 0..(tile_w - 1), y \in 0..(tile_h - 1) :
                             At(tiles[k].data, x, y) = 0

\* C9 witness: 7 tiles have been laid out and padded to 9
C9_Witness ==
    /\ gpc = "stitch" /\ layout = "auto" /\ n = 7
    /\ cols = 3 /\ rows = 3 /\ Len(tiles) = 9

\* ------------------------------------------------------------------------
\* _blend_seams on every grid, tile size and seam width
\* ------------------------------------------------------------------------
\* the most columns and rows of a grid
MaxGrid == 3

\* the largest tile side
MaxTile == 4

\* the widest seam band (pixels each side)
MaxBlend == 2

\* a stitched canvas whose values are not linear in x or y
SeamCanvas(w, h) ==
    [q \in Pixels(w, h) |-> RInt(1 + q[2] * q[2] + 3 * q[1] * q[1] + q[1] * q[2])]

\* _blend_seams is entered with a canvas of cols x rows tiles
InitSeam ==
    /\ CompIdle
    /\ gpc = "blend"
    /\ tile_list = [present |-> FALSE, lines |-> <<>>]
    /\ layout = "grid"
    /\ tiles = <<>>
    /\ n = 0
    /\ cols \in 1..MaxGrid
    /\ rows \in 1..MaxGrid
    /\ tile_w \in 1..MaxTile
    /\ tile_h \in 1..MaxTile
    /\ blend_px \in 0..MaxBlend
    /\ canvas = SeamCanvas(cols * tile_w, rows * tile_h)
    /\ out = <<>>
    /\ seam = 0
    /\ combined = [written |-> FALSE]

NextSeam ==
    \/ BlendBegin
    \/ BlendVSeam
    \/ BlendVEnd
    \/ BlendHSeam
    \/ BlendReturn

SpecSeam == InitSeam /\ [][NextSeam]_vars

\* both seam loops of _blend_seams have finished and it has not yet returned:
\* canvas holds the pre-blend values, out the result
Blended == gpc = "hseams" /\ seam >= rows

\* the band of the seam at position pos along an axis of the given extent
SeamLo(pos) == IF pos - blend_px < 0 THEN 0 ELSE pos - blend_px

SeamHi(pos, extent) ==
    IF pos + blend_px > extent - 1 THEN extent - 1 ELSE pos + blend_px

\* the value at position p of the linear ramp from a at lo to b at hi
RampAt(p, lo, hi, a, b) ==
    IF hi = lo THEN a
    ELSE RAdd(a, RMul(Rat(p - lo, hi - lo), RAdd(b, RMul(RInt(-1), a))))

\* pixel q has the value of the ramp across the vertical seam after column
\* c - 1, taken along q's row between the pre-blend values at the band edges
OnVRamp(q, c) ==
    LET lo == SeamLo(c * tile_w)
        hi == SeamHi(c * tile_w, cols * tile_w)
    IN  out[q] = RampAt(q[2], lo, hi, canvas[<<q[1], lo>>], canvas[<<q[1], hi>>])

\* the same for the horizontal seam after row r - 1, along q's column
OnHRamp(q, r) ==
    LET lo == SeamLo(r * tile_h)
        hi == SeamHi(r * tile_h, rows * tile_h)
    IN  out[q] = RampAt(q[1], lo, hi, canvas[<<lo, q[2]>>], canvas[<<hi, q[2]>>])

\* the vertical seams whose band contains column x, the horizontal seams
\* whose band contains row y
VSeamsAt(x) ==
    {c \in 1..(cols - 1) :
        SeamLo(c * tile_w) <= x /\ x <= SeamHi(c * tile_w, cols * tile_w)}

HSeamsAt(y) ==
    {r \in 1..(rows - 1) :
        SeamLo(r * tile_h) <= y /\ y <= SeamHi(r * tile_h, rows * tile_h)}

\* C10 as claimed: after _blend_seams, for each internal vertical seam the
\* band's pixels form in every row of the canvas the linear ramp between the
\* pre-blend values at the band's two edge columns, symmetrically for each
\* internal horizontal seam in every column, and every pixel outside all seam
\* bands keeps its pre-blend value
C10_Original ==
    Blended =>
        \A q \in DOMAIN out :
            /\ \A c \in VSeamsAt(q[2]) : OnVRamp(q, c)
            /\ \A r \in HSeamsAt(q[1]) : OnHRamp(q, r)
            /\ (VSeamsAt(q[2]) = {} /\ HSeamsAt(q[1]) = {}) => out[q] = canvas[q]

\* C10 amended: after _blend_seams every pixel in the band of an internal
\* horizontal seam holds, in every column, the linear ramp between the
\* pre-blend values at the band's two edge rows; every pixel in the band of
\* an internal vertical seam and in no horizontal band holds the linear ramp
\* between the pre-blend values at the band's two edge columns (a row inside
\* a horizontal band carries the horizontal ramp across its whole width, also
\* where it crosses a vertical seam); where the bands of two seams of the
\* same direction overlap (tile side <= 2 * blend_px) the ramp of the later
\* seam stands; every pixel outside all seam bands keeps its pre-blend value
C10_SeamRamps ==
    Blended =>
        \A q \in DOMAIN out :
            /\ HSeamsAt(q[1]) # {} => OnHRamp(q, SetMax(HSeamsAt(q[1])))
            /\ (HSeamsAt(q[1]) = {} /\ VSeamsAt(q[2]) # {}) =>
                  OnVRamp(q, SetMax(VSeamsAt(q[2])))
            /\ (VSeamsAt(q[2]) = {} /\ HSeamsAt(q[1]) = {}) => out[q] = canvas[q]

\* C10 witness: a grid with a vertical and a horizontal seam whose bands do
\* not overlap others has been blended; a pixel on the vertical ramp has
\* changed, and a pixel where the two bands cross holds the horizontal ramp
\* and not the vertical one
C10_Witness ==
    /\ Blended
    /\ cols >= 2 /\ rows >= 2 /\ blend_px >= 1
    /\ tile_w > 2 * blend_px /\ tile_h > 2 * blend_px
    /\ \E q \in DOMAIN out :
          /\ HSeamsAt(q[1]) = {} /\ VSeamsAt(q[2]) # {}
          /\ out[q] # canvas[q]
    /\ \E q \in DOMAIN out :
          /\ HSeamsAt(q[1]) # {} /\ VSeamsAt(q[2]) # {}
          /\ OnHRamp(q, SetMax(HSeamsAt(q[1])))
          /\ ~OnVRamp(q, SetMax(VSeamsAt(q[2])))

\* ------------------------------------------------------------------------
\* Error handling of the placement compositor
\* ------------------------------------------------------------------------
\* the entry cp has none of the per-patch errors of the load loop: metadata
\* present and well formed, declared size non-zero, heightmap present and
\* readable
PatchSound(cp) ==
    /\ cp.meta = "ok"
    /\ cp.width_px # 0 /\ cp.height_px # 0
    /\ cp.hm_file = "ok"

\* the names of the sound entries of the patch list, in list order
SoundNames ==
    LET sound == SelectSeq(canvas_patches, PatchSound)
    IN  [k \in 1..Len(sound) |-> sound[k].name]

\* the names of the patches in `loaded`, in list order
LoadedNames == [k \in 1..Len(loaded) |-> loaded[k].name]

\* the load loop has run to its end
LoadFinished == pc \in {"bounds", "govern", "alloc", "composite", "done"}

\* C11: no per-patch error aborts the run: an entry with missing or
\* malformed metadata, a zero declared size, or a missing or unreadable
\* heightmap is skipped, and every other entry is loaded and composited
C11_Original ==
    /\ pc # "crashed"
    /\ \A k \in 1..ld :
          ~PatchSound(canvas_patches[k]) =>
              \A j \in 1..Len(loaded) : loaded[j].name # canvas_patches[k].name
    /\ LoadFinished => LoadedNames = SoundNames
    /\ pc = "done" => ci = Len(loaded)

\* ------------------------------------------------------------------------
\* Either program is run once: compose_canvas.py on a small project, or
\* combine_tiles.py on a tile list
\* ------------------------------------------------------------------------
InitModes == Init \/ InitGrid

NextModes == Next \/ NextGrid

SpecModes == InitModes /\ [][NextModes]_vars

\* placement mode: the project lists no patches, or no entry of the list
\* gets through the load loop
NoSurvivor ==
    \A k \in 1..Len(canvas_patches) : LoadOutcome(canvas_patches[k]) # "append"

\* grid mode: the tile list is missing or names no existing file
NoTile == ~tile_list.present \/ TilePaths = <<>>

\* nothing of the placement compositor has been allocated, blended or written
CompUntouched ==
    /\ out_hm = <<>> /\ out_alpha = <<>> /\ out_img = <<>>
    /\ ci = 0
    /\ ~export.written

\* nothing of the grid tiler has been read, stitched, blended or written
GridUntouched ==
    /\ tiles = <<>>
    /\ canvas = <<>> /\ out = <<>>
    /\ ~combined.written

\* C12: when a global precondition fails (no patches listed or none
\* survives loading; tile list missing or without an existing tile) the run
\* ends in failure and, up to there, no accumulator is allocated, nothing is
\* blended and no output is written
C12_GlobalFailure ==
    /\ (pc # "idle" /\ NoSurvivor) =>
          /\ CompUntouched
          /\ \/ pc \in {"failed", "crashed"}
             \/ pc \in {"start", "load"} /\ ENABLED (CheckProject \/ LoadPatch \/ LoadEnd)
    /\ (gpc # "idle" /\ NoTile) =>
          /\ GridUntouched
          /\ \/ gpc = "failed"
             \/ gpc = "start" /\ ENABLED ReadTileList
    /\ pc \in {"failed", "crashed"} => CompUntouched
    /\ gpc = "failed" => GridUntouched

\* C12 witness: both entries of a two-patch project were dropped by the load
\* loop and the run failed after it
C12_Witness ==
    /\ pc = "failed"
    /\ Len(canvas_patches) = 2 /\ ld = 2
    /\ loaded = <<>>
    /\ CompUntouched

\* ------------------------------------------------------------------------
\* Projects with a wide patch and small patches at its right edge, composited
\* with and without downscaling
\* ------------------------------------------------------------------------
WideWidths == {127, 128}

FarOffsets == {127, 128}

\* a wide opaque patch at canvas_x 0 followed by one or two small ones
EdgeProjects ==
    UNION { { [k \in 1..(len + 1) |->
                 IF k = 1
                   THEN Entry(1, 0, 0, wide, 1, "grad", "none",
                              [scale_z |-> 1, img_file |-> "missing"], "none")
                   ELSE Entry(k, f[k - 1].cx, 0, f[k - 1].w, 1, "grad",
                              f[k - 1].mask,
                              [scale_z |-> 1, img_file |-> "missing"], "none")] :
              wide \in WideWidths,
              f \in [1..len -> [cx : FarOffsets, w : PatchWidths,
                                mask : {"none", "half"}]] } :
            len \in 1..2 }

InitEdge ==
    /\ \E project \in EdgeProjects, arg \in {MinMaxRes, DefaultMaxRes} :
          CompStart(project, TRUE, arg)
    /\ GridIdle

SpecEdge == InitEdge /\ [][Next]_vars

\* the patches of `loaded` handled so far whose clipped rectangle was not
\* empty, i.e. those blended into the accumulators
BlendedPatches ==
    {k \in 1..ci : ~Clipped(TargetRect(loaded[k]))}

\* C13: patch_count in the export summary is the number of patches blended
\* into the accumulators (loaded, and clipped rectangle non-empty)
C13_Original ==
    pc = "done" => export.patch_count = Cardinality(BlendedPatches)

\* ------------------------------------------------------------------------
\* Frame of the composite loop
\* ------------------------------------------------------------------------
\* the output pixel q lies in the clipped rectangle of none of the patches
\* handled so far
Untouched(q) == \A k \in 1..ci : ~Covers(k, q)

\* C14: an output pixel that lies in no patch's clipped target rectangle has
\* alpha 0, elevation 0 and colour 0 after any number of patch applications,
\* and is written as 0 to the exported rasters
C14_UntouchedStaysZero ==
    Compositing =>
        \A q \in Pixels(out_w, out_h) :
            Untouched(q) =>
                /\ out_alpha[q] = RZero
                /\ out_hm[q] = RZero
                /\ out_img[q] = <<RZero, RZero, RZero>>
                /\ pc = "done" =>
                      /\ export.heightmap[q] = RZero
                      /\ export.imagery[q] = <<0, 0, 0>>

\* C14 witness: the run has ended after two patches with imagery were
\* blended, one pixel of the canvas lies in neither rectangle and another
\* holds a composited value
C14_Witness ==
    /\ pc = "done" /\ ci = 2
    /\ loaded[1].has_img /\ loaded[2].has_img
    /\ \E q \in Pixels(out_w, out_h) : Untouched(q)
    /\ \E q \in Pixels(out_w, out_h) :
          ~Untouched(q) /\ out_alpha[q] # RZero /\ out_hm[q] # RZero

\* ------------------------------------------------------------------------
\* Reporting of skipped inputs
\* ------------------------------------------------------------------------
\* the lines with which the load loop reports that it drops a patch
SkipLines == {"Skipping: meta.json not found",
              "Skipping: width/height unknown in meta.json",
              "Skipping: heightmap not found",
              "Skipping: EXR read error"}

\* the other lines the load loop prints about a patch
LoadLines == {"Warning: imagery not found",
              "Warning: could not load imagery",
              "Warning: could not load mask",
              "OK Loaded"}

\* the entries consumed by the load loop that were not appended to `loaded`
Dropped ==
    {k \in 1..ld : \A j \in 1..Len(loaded) : loaded[j].name # canvas_patches[k].name}

\* the loaded patches the composite loop passed over because their clipped
\* rectangle is empty
ClipSkipped == {k \in 1..ci : Clipped(TargetRect(loaded[k]))}

\* C15: every skipped input is reported by name and reason: each patch
\* dropped by the load loop, and each patch the composite loop passes over
\* because its clipped rectangle is empty
C15_Original ==
    /\ \A k \in Dropped :
          \E i \in 1..Len(log) :
              log[i][2] = canvas_patches[k].name /\ log[i][1] \in SkipLines
    /\ \A k \in ClipSkipped :
          \E i \in 1..Len(log) :
              log[i][2] = loaded[k].name /\ log[i][1] \notin (SkipLines \cup LoadLines)

\* ------------------------------------------------------------------------
\* The alpha accumulator over the composite loop
\* ------------------------------------------------------------------------
\* C16: from one patch application to the next the alpha accumulator
\* decreases at no pixel
C16_AlphaNeverDecreases ==
    [][ (pc = "composite" /\ ci' = ci + 1) =>
          \A q \in Pixels(out_w, out_h) : RLe(out_alpha[q], out_alpha'[q]) ]_vars

\* C16 witness: two patches with mask 0.6 were applied over the same pixel,
\* whose alpha rose to 0.6 and then to the clamp at 1, beside a pixel only one
\* of them covers
C16_Witness ==
    /\ pc = "composite" /\ ci = 2
    /\ \E q \in Pixels(out_w, out_h) :
          /\ Covers(1, q) /\ MaskAt(1, q) = 153
          /\ Covers(2, q) /\ MaskAt(2, q) = 153
          /\ out_alpha[q] = ROne
    /\ \E q \in Pixels(out_w, out_h) :
          /\ Covers(1, q) /\ ~Covers(2, q)
          /\ out_alpha[q] = Rat(153, 255)

\* ------------------------------------------------------------------------
\* Patches of one pixel stacked on the same canvas pixel, in every order
\* ------------------------------------------------------------------------
MixIds == {1, 2, 3}

MixMasks == {"zero", "fifth", "twofifths", "half", "none"}

\* one to three distinct one-pixel patches at the canvas origin, in any
\* order, each with any of the masks
MixProjects ==
    UNION { { [k \in 1..len |->
                 Entry(f[k].id, 0, 0, 1, 1, "flat", f[k].mask,
                       [scale_z |-> 1, img_file |-> "missing"], "none")] :
              f \in { g \in [1..len -> [id : MixIds, mask : MixMasks]] :
                        \A i, j \in 1..len : i # j => g[i].id # g[j].id } } :
            len \in 1..3 }

InitMix ==
    /\ \E project \in MixProjects : CompStart(project, TRUE, DefaultMaxRes)
    /\ GridIdle

SpecMix == InitMix /\ [][Next]_vars

\* the resampled elevation and mask at pixel q of the patches handled so far
\* (of the first `count` patches) that cover q, in the order of application
ContributionsOf(q, count) ==
    LET idx == SelectSeq([k \in 1..count |-> k], LAMBDA k : Covers(k, q))
    IN  [i \in 1..Len(idx) |->
           [v |-> RInt(HmAt(idx[i], q)), m |-> MaskValue(MaskAt(idx[i], q))]]

Contributions(q) == ContributionsOf(q, ci)

\* the elevation and alpha the blend of lines 260-267 leaves at one pixel
\* after the contributions s are applied in order to a zeroed pixel
RECURSIVE FoldBlend(_)
FoldBlend(s) ==
    IF s = <<>>
      THEN [hm |-> RZero, alpha |-> RZero]
      ELSE LET prev == FoldBlend(SubSeq(s, 1, Len(s) - 1))
               last == s[Len(s)]
           IN  [hm    |-> BlendValue(last.v, last.m, prev.hm, prev.alpha),
                alpha |-> BlendAlpha(prev.alpha, last.m)]

\* the sum of the masks, and of the mask-weighted values, of s
RECURSIVE MaskSum(_)
MaskSum(s) ==
    IF s = <<>> THEN RZero ELSE RAdd(MaskSum(Tail(s)), Head(s).m)

RECURSIVE WeightedSum(_)
WeightedSum(s) ==
    IF s = <<>> THEN RZero
    ELSE RAdd(WeightedSum(Tail(s)), RMul(Head(s).v, Head(s).m))

\* the contributions s in the order given by the permutation p of its indices
Reordered(s, p) == [i \in 1..Len(s) |-> s[p[i]]]

\* C17: at a pixel where the masks of the applied patches sum to at most 1,
\* the elevation is the mask-weighted mean of the patches' values, and the
\* blend gives the same elevation for every order of the patches
C17_OrderIndependent ==
    Compositing =>
        \A q \in Pixels(out_w, out_h) :
            LET s == Contributions(q)
            IN  RLe(MaskSum(s), ROne) =>
                  /\ RMul(out_hm[q], MaskSum(s)) = WeightedSum(s)
                  /\ \A p \in Permutations(1..Len(s)) :
                        FoldBlend(Reordered(s, p)).hm = out_hm[q]

\* C17 witness: three patches with masks 0.2, 0.4 and 0.4 (sum 1) were
\* applied to one pixel, which holds their weighted mean and none of their
\* own values
C17_Witness ==
    /\ pc = "done" /\ ci = 3
    /\ LET s == Contributions(<<0, 0>>)
       IN  /\ Len(s) = 3
           /\ s[1].m = Rat(51, 255) /\ s[2].m = Rat(102, 255)
           /\ s[3].m = Rat(102, 255)
           /\ MaskSum(s) = ROne
           /\ out_hm[<<0, 0>>] = WeightedSum(s)
           /\ \A i \in 1..3 : out_hm[<<0, 0>>] # s[i].v

\* ------------------------------------------------------------------------
\* Order of the composite loop
\* ------------------------------------------------------------------------
\* the entries of the patch list that get through the load loop, in list
\* order
Survivors ==
    SelectSeq(canvas_patches, LAMBDA cp : LoadOutcome(cp) = "append")

\* C18: patches are blended one at a time in the order of the project's
\* patch list: `loaded` is the input list without the skipped entries, the
\* i-th iteration of the composite loop blends the i-th surviving entry and
\* nothing else, and the export is written after the last of them
C18_InputOrder ==
    [][ /\ LoadFinished =>
              loaded = [k \in 1..Len(Survivors) |-> LoadedPatch(Survivors[k])]
        /\ (pc = "composite" /\ ci' = ci + 1) =>
              LET p == LoadedPatch(Survivors[ci + 1])
                  r == TargetRect(p)
              IN  \A q \in Pixels(out_w, out_h) :
                     IF InRect(q, r)
                       THEN /\ out_hm'[q] =
                                  BlendValue(RInt(Region(p.hm, r, q)),
                                             MaskValue(Region(p.mask, r, q)),
                                             out_hm[q], out_alpha[q])
                            /\ out_alpha'[q] =
                                  BlendAlpha(out_alpha[q],
                                             MaskValue(Region(p.mask, r, q)))
                       ELSE /\ out_hm'[q] = out_hm[q]
                            /\ out_alpha'[q] = out_alpha[q]
        /\ (pc = "composite" /\ pc' = "done") =>
              /\ ci = Len(Survivors)
              /\ export'.patches =
                    [k \in 1..Len(Survivors) |-> Survivors[k].instance_id]
      ]_vars

\* C18 witness: three overlapping opaque patches with different elevations
\* have been blended in list order, which gives another elevation than the
\* reverse order would
C18_Witness ==
    /\ pc = "composite" /\ ci = 3
    /\ Len(canvas_patches) = 3
    /\ LoadedNames = <<1, 2, 3>>
    /\ \E q \in Pixels(out_w, out_h) :
          /\ Covers(1, q) /\ Covers(2, q) /\ Covers(3, q)
          /\ MaskAt(1, q) = 255 /\ MaskAt(2, q) = 255 /\ MaskAt(3, q) = 255
          /\ out_hm[q] =
                BlendValue(RInt(HmAt(3, q)), ROne,
                           BlendValue(RInt(HmAt(2, q)), ROne,
                                      RInt(HmAt(1, q)), ROne), ROne)
          /\ out_hm[q] #
                BlendValue(RInt(HmAt(1, q)), ROne,
                           BlendValue(RInt(HmAt(2, q)), ROne,
                                      RInt(HmAt(3, q)), ROne), ROne)

\* ------------------------------------------------------------------------
\* Stitching of the grid tiler
\* ------------------------------------------------------------------------
\* pixel q = <<y, x>> lies in the cell of tile index i: top-left
\* ((i mod cols) * tile_w, (i div cols) * tile_h), size tile_w x tile_h
InCell(q, i) ==
    /\ (i % cols) * tile_w <= q[2] /\ q[2] < (i % cols) * tile_w + tile_w
    /\ (i \div cols) * tile_h <= q[1] /\ q[1] < (i \div cols) * tile_h + tile_h

\* the value of tile index i at the canvas pixel q of its cell
CellValue(q, i) ==
    RInt(At(tiles[i + 1].data, q[2] - (i % cols) * tile_w,
            q[1] - (i \div cols) * tile_h))

\* C19: the canvas is cols*tile_w by rows*tile_h; placing tile index i
\* writes the tile to the cell with top-left ((i mod cols)*tile_w,
\* (i div cols)*tile_h) and nothing else; the cells of the indices below
\* cols*rows lie in the canvas and every canvas pixel is in exactly one, so
\* that before seam blending every pixel holds the value of its one tile
C19_RowMajorStitch ==
    [][ /\ gpc = "stitch" =>
              /\ DOMAIN canvas = Pixels(cols * tile_w, rows * tile_h)
              /\ Len(tiles) = cols * rows
              /\ \A i \in 0..(cols * rows - 1) :
                    \A y \in 0..(tile_h - 1), x \in 0..(tile_w - 1) :
                       <<(i \div cols) * tile_h + y, (i % cols) * tile_w + x>>
                          \in DOMAIN canvas
              /\ \A q \in DOMAIN canvas :
                    Cardinality({i \in 0..(cols * rows - 1) : InCell(q, i)}) = 1
        /\ (gpc = "stitch" /\ seam' = seam + 1) =>
              \A q \in DOMAIN canvas :
                 canvas'[q] = IF InCell(q, seam) THEN CellValue(q, seam)
                              ELSE canvas[q]
        /\ (gpc = "stitch" /\ gpc' = "blend") =>
              \A q \in DOMAIN canvas :
                 \A i \in 0..(cols * rows - 1) :
                    InCell(q, i) => canvas[q] = CellValue(q, i)
      ]_vars

\* C19 witness: seven tiles of 2x1 pixels have been stitched on a 3x3 grid
\* with two blank cells, and the tile of index 4 sits in the middle cell
C19_Witness ==
    /\ gpc = "blend"
    /\ n = 7 /\ cols = 3 /\ rows = 3 /\ tile_w = 2 /\ tile_h = 1
    /\ Len(tiles) = 9 /\ seam = 9
    /\ canvas[<<1, 2>>] = CellValue(<<1, 2>>, 4)
    /\ canvas[<<1, 2>>] # RZero
    /\ canvas[<<2, 5>>] = RZero

\* ------------------------------------------------------------------------
\* Grid size and padding
\* ------------------------------------------------------------------------
\* C20: for every number n >= 1 of tiles read and every layout, cols >= 1,
\* rows >= 1 and cols*rows >= n, with cols = n, rows = 1 for horizontal and
\* cols = 1, rows = n for vertical; the padding appends exactly
\* cols*rows - n blank tiles of zeros behind the n tiles read
C20_GridHoldsEveryTile ==
    /\ GridKnown =>
          /\ n = Len(TilePaths) /\ n >= 1
          /\ cols >= 1 /\ rows >= 1 /\ cols * rows >= n
          /\ layout = "horizontal" => (cols = n /\ rows = 1)
          /\ layout = "vertical" => (cols = 1 /\ rows = n)
          /\ Len(tiles) >= n /\ Len(tiles) <= cols * rows
          /\ \A k \in 1..n :
                tiles[k].data \in {TilePaths[k].data,
                                   Resize(TilePaths[k].data, tile_w, tile_h)}
          /\ \A k \in (n + 1)..Len(tiles) : tiles[k] = BlankTile
    /\ gpc \in {"stitch", "blend", "vseams", "hseams", "write", "done"} =>
          Len(tiles) - n = cols * rows - n

\* C20 witness: five tiles on the automatic 2x3 grid, padded with one blank
\* tile
C20_Witness ==
    /\ gpc = "stitch"
    /\ layout = "auto"
    /\ n = 5 /\ cols = 2 /\ rows = 3
    /\ Len(tiles) = 6
    /\ tiles[6] = BlankTile
    /\ tiles[5] # BlankTile

\* ------------------------------------------------------------------------
\* The output footprint of each patch
\* ------------------------------------------------------------------------
\* the output scale and dimensions have been computed
Governed == pc \in {"alloc", "composite", "done"}

\* C21: the output scale and dimensions are fixed once, before the first
\* patch is resampled; every patch is resampled to
\* (max(1, round(eff_w*out_scale)), max(1, round(eff_h*out_scale))), and that
\* size exceeds the output canvas in neither direction
C21_FootprintWithinCanvas ==
    [][ /\ Governed =>
              /\ ci = 0 \/ pc # "alloc"
              /\ out_scale = OutScale(canvas_w, canvas_h, max_res)
              /\ out_scale' = out_scale /\ out_w' = out_w /\ out_h' = out_h
              /\ \A k \in 1..Len(loaded) :
                    LET r == TargetRect(loaded[k])
                    IN  /\ r.pw = Max2(1, PyRound(RMul(RInt(loaded[k].eff_w), out_scale)))
                        /\ r.ph = Max2(1, PyRound(RMul(RInt(loaded[k].eff_h), out_scale)))
                        /\ r.pw <= out_w /\ r.ph <= out_h
                        /\ Resample(loaded[k].hm, r.pw, r.ph).w = r.pw
                        /\ Resample(loaded[k].hm, r.pw, r.ph).h = r.ph
                        /\ Resample(loaded[k].mask, r.pw, r.ph).w = r.pw
                        /\ Resample(loaded[k].mask, r.pw, r.ph).h = r.ph
        /\ (pc = "govern") => (ci = 0 /\ out_hm = <<>>)
      ]_vars

\* C21 witness: three patches of 43 canvas pixels each were composited at
\* output scale 64/129, each resampled to 21 output pixels on a canvas of 64
C21_Witness ==
    /\ pc = "done" /\ ci = 3
    /\ out_scale = Rat(64, 129) /\ out_w = 64
    /\ \A k \in 1..3 :
          /\ loaded[k].eff_w = 43
          /\ TargetRect(loaded[k]).pw = 21
          /\ Resample(loaded[k].hm, 21, TargetRect(loaded[k]).ph).w = 21

\* ------------------------------------------------------------------------
\* Pixels of zero alpha
\* ------------------------------------------------------------------------
\* C22: in every state of the composite loop a pixel whose accumulated alpha
\* is 0 has elevation 0 and colour 0, also when patches with mask 0 there
\* have been blended over it
C22_ZeroAlphaZeroValue ==
    Compositing =>
        \A q \in Pixels(out_w, out_h) :
            out_alpha[q] = RZero =>
                /\ out_hm[q] = RZero
                /\ out_img[q] = <<RZero, RZero, RZero>>

\* C22 witness: a patch with imagery, non-zero elevation and mask 0 has been
\* blended over a pixel, which is still at alpha 0, elevation 0 and colour 0
C22_Witness ==
    /\ pc = "composite" /\ ci >= 1
    /\ \E q \in Pixels(out_w, out_h) :
          /\ Covers(1, q) /\ MaskAt(1, q) = 0
          /\ loaded[1].has_img
          /\ HmAt(1, q) # 0 /\ ImgAt(1, q) # <<RZero, RZero, RZero>>
          /\ \A k \in 2..ci : Covers(k, q) => MaskAt(k, q) = 0
          /\ out_alpha[q] = RZero /\ out_hm[q] = RZero
          /\ out_img[q] = <<RZero, RZero, RZero>>

\* ------------------------------------------------------------------------
\* Projects with a wide patch and a smaller, taller patch below or beside it,
\* composited with and without downscaling
\* ------------------------------------------------------------------------
TallHeights == {1, 2, 3}

\* a wide opaque patch of one row at the canvas origin followed by a patch of
\* one to three rows
TrimProjects ==
    { << Entry(1, 0, 0, wide, 1, "grad", "none",
               [scale_z |-> 1, img_file |-> "missing"], "none"),
         Entry(2, cx, cy, w, h, "grad", mask,
               [scale_z |-> 2, img_file |-> "ok"], "none") >> :
        wide \in WideWidths, cx \in {0, 126}, cy \in {0, 1, 2},
        w \in PatchWidths, h \in TallHeights, mask \in {"none", "half"} }

InitTrim ==
    /\ \E project \in TrimProjects, arg \in {MinMaxRes, DefaultMaxRes} :
          CompStart(project, TRUE, arg)
    /\ GridIdle

SpecTrim == InitTrim /\ [][Next]_vars

\* C23: for every loaded patch the composite loop does not skip, the clipped
\* rectangle [px0,px1) x [py0,py1) lies in the output canvas, the source
\* sub-region satisfies 0 <= sx0 < sx1 <= pw and 0 <= sy0 < sy1 <= ph and has
\* the size of the clipped rectangle, and every pixel of the rectangle reads
\* a sample inside the resampled layers
C23_SlicesMatch ==
    Governed =>
        \A k \in 1..Len(loaded) :
            LET r == TargetRect(loaded[k])
            IN  ~Clipped(r) =>
                  /\ 0 <= r.px0 /\ r.px0 < r.px1 /\ r.px1 <= out_w
                  /\ 0 <= r.py0 /\ r.py0 < r.py1 /\ r.py1 <= out_h
                  /\ 0 <= r.sx0 /\ r.sx0 < r.sx1 /\ r.sx1 <= r.pw
                  /\ 0 <= r.sy0 /\ r.sy0 < r.sy1 /\ r.sy1 <= r.ph
                  /\ r.sx1 - r.sx0 = r.px1 - r.px0
                  /\ r.sy1 - r.sy0 = r.py1 - r.py0
                  /\ \A y \in r.py0..(r.py1 - 1), x \in r.px0..(r.px1 - 1) :
                        /\ <<y, x>> \in Pixels(out_w, out_h)
                        /\ r.sx0 + (x - r.px0) \in 0..(Resample(loaded[k].hm, r.pw, r.ph).w - 1)
                        /\ r.sy0 + (y - r.py0) \in 0..(Resample(loaded[k].mask, r.pw, r.ph).h - 1)

\* C23 witness: a downscaled patch whose output rectangle reaches below the
\* canvas has been blended through a rectangle cut at the bottom edge
C23_Witness ==
    /\ pc = "composite" /\ ci = 2
    /\ RLt(out_scale, ROne)
    /\ LET r == TargetRect(loaded[2])
       IN  /\ ~Clipped(r)
           /\ r.oy1 > out_h /\ r.py1 = out_h
           /\ r.sy1 < r.ph
           /\ \E q \in Pixels(out_w, out_h) : InRect(q, r) /\ out_alpha[q] # RZero

\* ------------------------------------------------------------------------
\* Range of the accumulated elevation
\* ------------------------------------------------------------------------
\* the elevations of the contributions of s that have a positive mask
PositiveValues(s) == {s[i].v : i \in {j \in 1..Len(s) : RLt(RZero, s[j].m)}}

\* C24: after each patch application the elevation at a pixel with alpha > 0
\* lies between the least and the greatest resampled elevation of the patches
\* blended there with a positive mask, and each step leaves the elevation
\* between the previous elevation and the new patch's value whenever the
\* pixel already had alpha > 0; this also holds when the masks sum above 1
C24_ElevationWithinRange ==
    [][ (pc = "composite" /\ ci' = ci + 1) =>
          \A q \in Pixels(out_w, out_h) :
             /\ out_alpha'[q] # RZero =>
                   LET vals == PositiveValues(ContributionsOf(q, ci + 1))
                   IN  /\ vals # {}
                       /\ RLe(RLeast(vals), out_hm'[q])
                       /\ RLe(out_hm'[q], RGreatest(vals))
             /\ (out_alpha[q] # RZero /\ Covers(ci + 1, q)) =>
                   /\ RLe(RMin(out_hm[q], RInt(HmAt(ci + 1, q))), out_hm'[q])
                   /\ RLe(out_hm'[q], RMax(out_hm[q], RInt(HmAt(ci + 1, q))))
      ]_vars

\* C24 witness: three patches with mask 0.6 and different elevations were
\* blended over one pixel; the masks sum to 1.8, alpha is clamped at 1 and
\* the elevation lies strictly between the least and the greatest of them
C24_Witness ==
    /\ pc = "composite" /\ ci = 3
    /\ LET s == Contributions(<<0, 0>>)
       IN  /\ Len(s) = 3
           /\ \A i \in 1..3 : s[i].m = Rat(153, 255)
           /\ MaskSum(s) = Rat(9, 5)
           /\ out_alpha[<<0, 0>>] = ROne
           /\ RLt(RLeast(PositiveValues(s)), out_hm[<<0, 0>>])
           /\ RLt(out_hm[<<0, 0>>], RGreatest(PositiveValues(s)))
           /\ out_hm[<<0, 0>>] # RDiv(WeightedSum(s), MaskSum(s))

====
